---------------------------- MODULE Spec2Model ----------------------------
(***************************************************************************)
(* Range decomposition into canonical (power-of-two aligned) blocks and    *)
(* the level-sequenced frame generator of fenwick-illustrations:           *)
(*   src/animate.py     into_parts, animate                                *)
(*   src/illustrate.py  Drawer._into_parts, Drawer.animate                 *)
(*                                                                         *)
(* Real-valued quantities (level, level_step, accelerate_intact) are held  *)
(* in fixed point, as multiples of 1/Unit.  Every value the model draws is *)
(* a dyadic rational with at most three fractional bits, so the Python     *)
(* float arithmetic on them is exact and the fixed-point model agrees with *)
(* it bit for bit.                                                         *)
(***************************************************************************)
EXTENDS Integers, Sequences, FiniteSets, TLC

VARIABLES
    impl,               \* which source file runs: "animate" or "illustrate"
    left, right,        \* the caller's arguments (unchanged by the call)
    max_position,       \* max_position argument / Drawer.max_position
    logarithmic,        \* logarithmic flag
    level_step,         \* level_step, fixed point
    accelerate_intact,  \* accelerate_intact after the None default, fixed point
    start_level,        \* start_level argument of Drawer.animate (None or fixed point)
    pc,                 \* position in into_parts / animate
    l, r,               \* into_parts' local cursors (named left, right in the source)
    left_parts,         \* into_parts' left_parts list
    right_parts,        \* into_parts' right_parts list
    split,              \* <<>> until into_parts returns, then <<Parts>>
    level,              \* animate's level, fixed point
    frame,              \* the frame yielded last (<<>> before the first)
    n_frames,           \* number of frames yielded so far
    vertical_stretch,   \* Drawer.vertical_stretch, fixed point
    gp_level,           \* level argument of the last _get_point call (None before)
    gp_numerator,       \* its level_numerator, in units of 1 / (Unit * Unit)
    gp_denominator      \* its level_denominator, in units of 1 / (Unit * Unit)

vars == <<impl, left, right, max_position, logarithmic, level_step,
          accelerate_intact, start_level, pc, l, r, left_parts, right_parts,
          split, level, frame, n_frames,
          vertical_stretch, gp_level, gp_numerator, gp_denominator>>

\* The state of Drawer._get_point, which into_parts and the frame loop leave alone.
point_vars == <<vertical_stretch, gp_level, gp_numerator, gp_denominator>>

-----------------------------------------------------------------------------
(* Bounds of the model *)

\* Largest position of the drawing; ranges are drawn from 0..MaxPos.
MaxPos == 32

\* How far below 0 and above MaxPos the arguments of a bare into_parts call go.
Slack == 2

\* The frame generator is also run on every range inside 0..SmallMax.
SmallMax == 8

-----------------------------------------------------------------------------
(* Values *)

\* Python's None, for optional numeric arguments.
None == -1

\* np.inf as first_cut_height / first_cut_level (heights are never negative).
Inf == -2

\* Fixed-point denominator: the real x is stored as x * Unit.
Unit == 8

Impls == {"animate", "illustrate"}

-----------------------------------------------------------------------------
(* Integer helpers as Python computes them *)

\* Python's & on unbounded two's-complement integers.
RECURSIVE BitAnd(_, _)
BitAnd(a, b) ==
    IF a = 0 \/ b = 0 THEN 0
    ELSE IF a = -1 THEN b
    ELSE IF b = -1 THEN a
    ELSE (a % 2) * (b % 2) + 2 * BitAnd(a \div 2, b \div 2)

\* int.bit_length(): bits needed for |x|.
RECURSIVE bit_length(_)
bit_length(x) ==
    IF x = 0 THEN 0
    ELSE IF x < 0 THEN bit_length(-x)
    ELSE 1 + bit_length(x \div 2)

RECURSIVE Pow2(_)
Pow2(k) == IF k = 0 THEN 1 ELSE 2 * Pow2(k - 1)

lsbAlwaysOne(x) == IF x = 0 THEN 0 ELSE 1

\* lsb / Drawer._lsb: x & -x (0 for x = 0).
lsb(x) == BitAnd(x, -x)

prev(x) == x - lsb(x)

next(x) == x + lsb(x)

Reverse(s) == [i \in 1..Len(s) |-> s[Len(s) + 1 - i]]

-----------------------------------------------------------------------------
(* into_parts / Drawer._into_parts *)

RightCondStrict(lo, hi) == hi > 0 /\ prev(hi) > lo

\* while right > 0 and _prev(right) >= left
RightCond(lo, hi) == hi > 0 /\ prev(hi) >= lo

\* while left > 0 and _next(left) <= right
LeftCond(lo, hi) == lo > 0 /\ next(lo) <= hi

RightPartWrongHeight(i, hi) ==
    [start |-> prev(hi), end |-> hi, height |-> hi, is_left |-> (i = "illustrate")]

\* The Part appended by the right loop; animate.py tags it is_left=False,
\* illustrate.py is_left=True.
RightPart(i, hi) ==
    [start |-> prev(hi), end |-> hi, height |-> lsb(hi), is_left |-> (i = "illustrate")]

LeftPartSameFlag(i, lo) ==
    [start |-> lo, end |-> next(lo), height |-> lsb(lo), is_left |-> (i = "illustrate")]

\* The Part appended by the left loop; animate.py tags it is_left=True,
\* illustrate.py is_left=False.
LeftPart(i, lo) ==
    [start |-> lo, end |-> next(lo), height |-> lsb(lo), is_left |-> (i = "animate")]

ConvergedUnchecked(lo, hi) == TRUE

\* assert left == right
Converged(lo, hi) == lo = hi

FirstCutHeightOfArgument(arg, lo) == IF lsb(arg) = 0 THEN Inf ELSE lsb(arg)

\* first_cut_height = lsb(left), np.inf when that is 0; left is the cursor
\* after the loops.  arg is the argument as passed, which the code no longer has.
FirstCutHeight(arg, lo) == IF lsb(lo) = 0 THEN Inf ELSE lsb(lo)

ConcatUnreversed(lp, rp) == lp \o rp

\* parts = left_parts + right_parts[::-1]
Concat(lp, rp) == lp \o Reverse(rp)

\* One iteration of the right loop.
RightLoop ==
    /\ pc = "right_loop"
    /\ RightCond(l, r)
    /\ right_parts' = Append(right_parts, RightPart(impl, r))
    /\ r' = prev(r)
    /\ UNCHANGED point_vars
    /\ UNCHANGED <<impl, left, right, max_position, logarithmic, level_step,
                   accelerate_intact, start_level, pc, l, left_parts, split,
                   level, frame, n_frames>>

\* The right loop's condition fails: on to the left loop.
RightLoopExit ==
    /\ pc = "right_loop"
    /\ ~RightCond(l, r)
    /\ pc' = "left_loop"
    /\ UNCHANGED point_vars
    /\ UNCHANGED <<impl, left, right, max_position, logarithmic, level_step,
                   accelerate_intact, start_level, l, r, left_parts, right_parts,
                   split, level, frame, n_frames>>

\* One iteration of the left loop.
LeftLoop ==
    /\ pc = "left_loop"
    /\ LeftCond(l, r)
    /\ left_parts' = Append(left_parts, LeftPart(impl, l))
    /\ l' = next(l)
    /\ UNCHANGED point_vars
    /\ UNCHANGED <<impl, left, right, max_position, logarithmic, level_step,
                   accelerate_intact, start_level, pc, r, right_parts, split,
                   level, frame, n_frames>>

\* The left loop's condition fails: the assertion, then the return.
\* A failed assertion raises AssertionError and nothing is returned.
LeftLoopExit ==
    /\ pc = "left_loop"
    /\ ~LeftCond(l, r)
    /\ IF Converged(l, r)
       THEN /\ split' = <<[parts |-> Concat(left_parts, right_parts),
                           first_cut_height |-> FirstCutHeight(left, l)]>>
            /\ pc' = "returned"
       ELSE /\ split' = split
            /\ pc' = "AssertionError"
    /\ UNCHANGED point_vars
    /\ UNCHANGED <<impl, left, right, max_position, logarithmic, level_step,
                   accelerate_intact, start_level, l, r, left_parts, right_parts,
                   level, frame, n_frames>>

-----------------------------------------------------------------------------
(* A bare call of into_parts(left, right) with arbitrary integer arguments *)

ArgRange == (0 - Slack)..(MaxPos + Slack)

InitParts ==
    /\ impl \in Impls
    /\ left \in ArgRange
    /\ right \in ArgRange
    /\ max_position = MaxPos
    /\ logarithmic = FALSE
    /\ level_step = Unit \div 2
    /\ accelerate_intact = 2 * Unit
    /\ start_level = None
    /\ pc = "right_loop"
    /\ l = left
    /\ r = right
    /\ left_parts = <<>>
    /\ right_parts = <<>>
    /\ split = <<>>
    /\ level = 0
    /\ frame = <<>>
    /\ n_frames = 0
    /\ vertical_stretch = Unit
    /\ gp_level = None
    /\ gp_numerator = 0
    /\ gp_denominator = 0

NextParts == RightLoop \/ RightLoopExit \/ LeftLoop \/ LeftLoopExit

SpecParts == InitParts /\ [][NextParts]_vars

-----------------------------------------------------------------------------
(* animate / Drawer.animate *)

\* as_level / Drawer._as_level
as_level(lg, x) == IF lg THEN bit_length(x) ELSE x

\* Drawer._round_up_to_pow2
round_up_to_pow2(x) == IF BitAnd(x, x - 1) = 0 THEN x ELSE Pow2(bit_length(x))

\* max_level: animate.py takes as_level(max_position); the Drawer rounds
\* max_position up to a power of two first.
MaxLevel(i, lg, mp) ==
    IF i = "animate" THEN as_level(lg, mp) ELSE as_level(lg, round_up_to_pow2(mp))

\* accelerate_intact after its default: 1 if logarithmic else 2.
AccelerateIntact(arg, lg) ==
    IF arg = None THEN (IF lg THEN 1 ELSE 2) * Unit ELSE arg

LoopCondStrict(i, lv) == lv > 0

LoopCondInclusive(i, lv) == lv >= 0

\* while level > 0 (animate.py) / while level >= 0 (illustrate.py)
LoopCond(i, lv) == IF i = "animate" THEN lv > 0 ELSE lv >= 0

\* first_cut_level: np.inf if first_cut_height is np.inf, else its as_level.
FirstCutLevel(lg, fch) == IF fch = Inf THEN Inf ELSE as_level(lg, fch) * Unit

IntactWithoutInfinity(lv, fcl) == IF fcl = Inf THEN lv > 0 ELSE lv > fcl

\* intact = level > first_cut_level
Intact(lv, fcl) == IF fcl = Inf THEN FALSE ELSE lv > fcl

ActualLevelUnclamped(lg, lv, h) == lv

\* actual_level = max(level, as_level(part.height))
ActualLevel(lg, lv, h) ==
    IF lv >= as_level(lg, h) * Unit THEN lv ELSE as_level(lg, h) * Unit

\* Drawer._get_color; skia.ColorBLUE if part.is_left else skia.ColorRED
GetColor(is_left) == IF is_left THEN "left" ELSE "right"

\* The segments drawn in one iteration of the loop.
Segments(lg, lv, intact, lo, hi, parts) ==
    IF intact
    THEN << [start |-> lo, end |-> hi, level |-> lv, color |-> "intact"] >>
    ELSE [i \in 1..Len(parts) |->
             [start |-> parts[i].start, end |-> parts[i].end,
              level |-> ActualLevel(lg, lv, parts[i].height),
              color |-> GetColor(parts[i].is_left)]]

\* level_step * (accelerate_intact if intact else 1); the fixed-point product
\* of the values drawn below is always a multiple of Unit, so \div is exact.
Decrement(step, acc, intact) == (step * (IF intact THEN acc ELSE Unit)) \div Unit

\* level = max_level if start_level is None else start_level
StartLoop ==
    /\ pc = "returned"
    /\ level' = IF start_level = None
                THEN MaxLevel(impl, logarithmic, max_position) * Unit
                ELSE start_level
    /\ pc' = "loop"
    /\ UNCHANGED point_vars
    /\ UNCHANGED <<impl, left, right, max_position, logarithmic, level_step,
                   accelerate_intact, start_level, l, r, left_parts, right_parts,
                   split, frame, n_frames>>

\* One iteration of the loop: draw and yield a frame, lower the level.
Yield ==
    /\ pc = "loop"
    /\ LoopCond(impl, level)
    /\ LET intact == Intact(level, FirstCutLevel(logarithmic, split[1].first_cut_height))
       IN  /\ frame' = [level |-> level, intact |-> intact,
                        segments |-> Segments(logarithmic, level, intact, left, right,
                                              split[1].parts)]
           /\ level' = level - Decrement(level_step, accelerate_intact, intact)
    /\ n_frames' = n_frames + 1
    /\ UNCHANGED point_vars
    /\ UNCHANGED <<impl, left, right, max_position, logarithmic, level_step,
                   accelerate_intact, start_level, pc, l, r, left_parts,
                   right_parts, split>>

\* The loop's condition fails: the generator is exhausted.
LoopExit ==
    /\ pc = "loop"
    /\ ~LoopCond(impl, level)
    /\ pc' = "done"
    /\ UNCHANGED point_vars
    /\ UNCHANGED <<impl, left, right, max_position, logarithmic, level_step,
                   accelerate_intact, start_level, l, r, left_parts, right_parts,
                   split, level, frame, n_frames>>

\* The ranges the scene drivers animate (generate_segment_tree_frames,
\* generate_fenwick_tree_frames).
ExampleRanges ==
    { <<9, 29>>, <<3, 37>>, <<32, 49>>, <<37, 64>>, <<0, 15>>, <<0, 27>>,
      <<0, 29>>, <<0, 37>>, <<0, 49>>, <<0, 64>> }

\* Valid ranges of the drawing: the examples that fit and every small range.
AnimRanges ==
    {rg \in ExampleRanges : rg[2] <= MaxPos}
        \cup {rg \in (0..SmallMax) \X (0..SmallMax) : rg[1] <= rg[2]}

\* level_step: 0.25 and 0.5 as in the source, and 0.75, which does not divide
\* max_level.
LevelSteps == {Unit \div 4, Unit \div 2, (3 * Unit) \div 4}

\* accelerate_intact argument: the default, 0.5 and 1.
AccArgs == {None, Unit \div 2, Unit}

InitAnim ==
    /\ impl \in Impls
    /\ \E rg \in AnimRanges : left = rg[1] /\ right = rg[2]
    /\ max_position = MaxPos
    /\ logarithmic \in BOOLEAN
    /\ level_step \in LevelSteps
    /\ \E arg \in AccArgs : accelerate_intact = AccelerateIntact(arg, logarithmic)
    /\ start_level \in (IF impl = "illustrate" THEN {None, 0} ELSE {None})
    /\ pc = "right_loop"
    /\ l = left
    /\ r = right
    /\ left_parts = <<>>
    /\ right_parts = <<>>
    /\ split = <<>>
    /\ level = 0
    /\ frame = <<>>
    /\ n_frames = 0
    /\ vertical_stretch = Unit
    /\ gp_level = None
    /\ gp_numerator = 0
    /\ gp_denominator = 0

NextAnim ==
    \/ RightLoop \/ RightLoopExit \/ LeftLoop \/ LeftLoopExit
    \/ StartLoop \/ Yield \/ LoopExit

SpecAnim == InitAnim /\ [][NextAnim]_vars

\* The consumer (save_animation's for loop) runs the generator to exhaustion.
FairAnim == SpecAnim /\ WF_vars(NextAnim)

-----------------------------------------------------------------------------
(* The frame generator with its default pacing, on every valid range *)

\* Every range 0 <= left <= right <= MaxPos.
ValidRanges == {rg \in (0..MaxPos) \X (0..MaxPos) : rg[1] <= rg[2]}

InitAllRanges ==
    /\ impl \in Impls
    /\ \E rg \in ValidRanges : left = rg[1] /\ right = rg[2]
    /\ max_position = MaxPos
    /\ logarithmic \in BOOLEAN
    /\ level_step = Unit \div 2
    /\ accelerate_intact = AccelerateIntact(None, logarithmic)
    /\ start_level = None
    /\ pc = "right_loop"
    /\ l = left
    /\ r = right
    /\ left_parts = <<>>
    /\ right_parts = <<>>
    /\ split = <<>>
    /\ level = 0
    /\ frame = <<>>
    /\ n_frames = 0
    /\ vertical_stretch = Unit
    /\ gp_level = None
    /\ gp_numerator = 0
    /\ gp_denominator = 0

SpecAllRanges == InitAllRanges /\ [][NextAnim]_vars

-----------------------------------------------------------------------------
(* Drawer._get_point: the level part of the coordinate mapping.  The pixel
   coordinates are affine in level_numerator / level_denominator and in
   position / max_position, with factors taken from the font's metrics; x does
   not depend on level. *)

LevelNumeratorSignSlip(lv, stretch) ==
    IF lv = 0 THEN 0 ELSE Unit * Unit - (lv - Unit) * stretch

\* level_numerator = 0 if level == 0 else 1 + (level - 1) * self.vertical_stretch
LevelNumerator(lv, stretch) ==
    IF lv = 0 THEN 0 ELSE Unit * Unit + (lv - Unit) * stretch

\* level_denominator = 1 + (self.max_level - 1) * self.vertical_stretch
LevelDenominator(ml, stretch) == Unit * Unit + (ml - Unit) * stretch

\* vertical_stretch: 1 (default), 1.5 and 3 as in the source, and 0.5.
Stretches == {Unit \div 2, Unit, (3 * Unit) \div 2, 3 * Unit}

\* The levels 0 <= level <= max_level in steps of 1 / Unit; they include every
\* multiple of level_step.
PointLevels(lg, mp) == 0..(MaxLevel("illustrate", lg, mp) * Unit)

\* One call of _get_point(position, level).
GetPoint ==
    /\ pc = "get_point"
    /\ \E lv \in PointLevels(logarithmic, max_position) :
          /\ gp_level' = lv
          /\ gp_numerator' = LevelNumerator(lv, vertical_stretch)
          /\ gp_denominator' =
                LevelDenominator(MaxLevel(impl, logarithmic, max_position) * Unit,
                                 vertical_stretch)
    /\ UNCHANGED <<impl, left, right, max_position, logarithmic, level_step,
                   accelerate_intact, start_level, pc, l, r, left_parts,
                   right_parts, split, level, frame, n_frames, vertical_stretch>>

\* A Drawer as constructed, before any call of _get_point.
InitPoint ==
    /\ impl = "illustrate"
    /\ left = 0
    /\ right = 0
    /\ max_position = MaxPos
    /\ logarithmic \in BOOLEAN
    /\ level_step = Unit \div 2
    /\ accelerate_intact = AccelerateIntact(None, logarithmic)
    /\ start_level = None
    /\ pc = "get_point"
    /\ l = 0
    /\ r = 0
    /\ left_parts = <<>>
    /\ right_parts = <<>>
    /\ split = <<>>
    /\ level = 0
    /\ frame = <<>>
    /\ n_frames = 0
    /\ vertical_stretch \in Stretches
    /\ gp_level = None
    /\ gp_numerator = 0
    /\ gp_denominator = 0

NextPoint == GetPoint

SpecPoint == InitPoint /\ [][NextPoint]_vars

-----------------------------------------------------------------------------
(* Vocabulary of the properties *)

Returned == pc = "returned"

Failed == pc = "AssertionError"

\* The Parts value into_parts returned.
Result == split[1]

\* 0 <= left <= right
Ordered == 0 <= left /\ left <= right

\* 0 <= left <= right <= maxPosition
ValidRange == Ordered /\ right <= max_position

Max(S) == CHOOSE x \in S : \A y \in S : y <= x

Min(S) == CHOOSE x \in S : \A y \in S : x <= y

\* The powers of two up to the largest argument.
Pow2s == {Pow2(k) : k \in 0..bit_length(MaxPos + Slack)}

\* The largest power of two dividing x > 0, from divisibility alone.
LargestPow2Dividing(x) == Max({p \in Pow2s : x % p = 0})

\* [a, a + h) is a canonical block: h a power of two, a a multiple of h.
Canonical(a, h) == h \in Pow2s /\ a % h = 0

\* t[x] is the least number of canonical blocks that tile [x, hi), for x in lo..hi.
RECURSIVE MinTable(_, _)
MinTable(lo, hi) ==
    IF lo = hi THEN (hi :> 0)
    ELSE LET t == MinTable(lo + 1, hi)
             steps == {h \in Pow2s : Canonical(lo, h) /\ lo + h <= hi}
         IN  t @@ (lo :> 1 + Min({t[lo + h] : h \in steps}))

MinBlocks(lo, hi) == MinTable(lo, hi)[lo]

Tiles(parts, lo, hi) ==
    IF lo = hi THEN parts = <<>>
    ELSE /\ Len(parts) >= 1
         /\ parts[1].start = lo
         /\ parts[Len(parts)].end = hi
         /\ \A i \in 1..(Len(parts) - 1) : parts[i].end = parts[i + 1].start

-----------------------------------------------------------------------------
(* C1: for every 0 <= left <= right <= maxPosition the returned parts tile
   [left, right) in list order: the first starts at left, the last ends at
   right, each ends where the next starts; for left = right the list is empty. *)
C1_Tiling == (Returned /\ ValidRange) => Tiles(Result.parts, left, right)

\* A range that needs several parts from each cursor has returned.
C1_Witness ==
    /\ Returned /\ ValidRange
    /\ Len(left_parts) >= 2 /\ Len(right_parts) >= 2

(* C2: every returned part is a canonical block: its height is a power of two,
   end - start = height, and start is a multiple of height. *)
C2_CanonicalBlocks ==
    (Returned /\ ValidRange) =>
        \A i \in 1..Len(Result.parts) :
            LET p == Result.parts[i] IN
            /\ p.height \in Pow2s
            /\ p.end - p.start = p.height
            /\ p.start % p.height = 0

C2_Witness ==
    /\ Returned /\ ValidRange
    /\ \E i \in 1..Len(Result.parts) : Result.parts[i].height >= 8
    /\ \E i \in 1..Len(Result.parts) : Result.parts[i].height = 1

(* C3 as stated: first_cut_height is +infinity for left = 0 and lsb of the
   argument left otherwise. *)
C3_Original ==
    (Returned /\ ValidRange) =>
        Result.first_cut_height = (IF left = 0 THEN Inf ELSE lsb(left))

(* C3 amended: first_cut_height is +infinity for left = 0; for left > 0 it is
   lsb of the meeting point of the two cursors, which is the largest lsb(x)
   over left <= x <= right, so into_parts(9, 29) returns 16. *)
C3_CutHeightOfMeetingPoint ==
    (Returned /\ ValidRange) =>
        /\ l = r
        /\ left = 0 => Result.first_cut_height = Inf
        /\ left > 0 =>
              /\ Result.first_cut_height = LargestPow2Dividing(l)
              /\ Result.first_cut_height =
                    Max({LargestPow2Dividing(x) : x \in left..right})
        /\ (left = 9 /\ right = 29) => Result.first_cut_height = 16

C3_Witness ==
    /\ Returned /\ left = 9 /\ right = 29
    /\ Result.first_cut_height = 16 /\ lsb(left) = 1

\* The parts of into_parts(9, 29), with the flag of the left cursor's parts.
Parts_9_29(leftFlag) ==
    << [start |-> 9,  end |-> 10, height |-> 1, is_left |-> leftFlag],
       [start |-> 10, end |-> 12, height |-> 2, is_left |-> leftFlag],
       [start |-> 12, end |-> 16, height |-> 4, is_left |-> leftFlag],
       [start |-> 16, end |-> 24, height |-> 8, is_left |-> ~leftFlag],
       [start |-> 24, end |-> 28, height |-> 4, is_left |-> ~leftFlag],
       [start |-> 28, end |-> 29, height |-> 1, is_left |-> ~leftFlag] >>

(* C4 as stated: in both implementations a part has is_left = true exactly
   when the left cursor emitted it (it lies left of the meeting point). *)
C4_Original ==
    (Returned /\ ValidRange) =>
        \A i \in 1..Len(Result.parts) :
            Result.parts[i].is_left = (Result.parts[i].end <= l)

(* C4 amended: in animate.py a part has is_left = true exactly when the left
   cursor emitted it; in illustrate.py the flag is the opposite, true exactly
   when the right cursor emitted it.  into_parts(9, 29) yields L L L R R R in
   animate.py and R R R L L L in illustrate.py; into_parts(0, 27) yields only
   R parts in animate.py and only L parts in illustrate.py. *)
C4_FlagPerImplementation ==
    (Returned /\ ValidRange) =>
        /\ \A i \in 1..Len(Result.parts) :
              LET p == Result.parts[i] IN
              /\ (p.end <= l) = (i <= Len(left_parts))
              /\ impl = "animate" => p.is_left = (p.end <= l)
              /\ impl = "illustrate" => p.is_left = (p.start >= l)
        /\ (left = 9 /\ right = 29) => Result.parts = Parts_9_29(impl = "animate")
        /\ (left = 0 /\ right = 27) =>
              /\ Len(Result.parts) = 4
              /\ \A i \in 1..4 : Result.parts[i].is_left = (impl = "illustrate")

C4_Witness ==
    /\ Returned /\ impl = "illustrate" /\ left = 9 /\ right = 29
    /\ Result.parts[1].is_left = FALSE /\ Result.parts[4].is_left = TRUE

(* C5 as stated: for left > right, left < 0 or right > maxPosition the
   decomposition fails and never returns a Parts value. *)
C5_Original ==
    (left > right \/ left < 0 \/ right > max_position) =>
        (~Returned /\ split = <<>>)

(* C5 amended: the decomposition fails (its convergence assertion) and returns
   nothing exactly when left > right, or left < 0 and left /= right.  It never
   looks at maxPosition: with 0 <= left <= right it returns a Parts value also
   for right > maxPosition, and for left = right < 0 it returns an empty parts
   list.  Nothing is returned before the loops have finished. *)
C5_FailsOnDisorderOnly ==
    /\ (Returned \/ Failed) =>
          (Failed <=> (left > right \/ (left < 0 /\ left /= right)))
    /\ ~Returned => split = <<>>
    /\ (Returned /\ left < 0) => Result.parts = <<>>

C5_Witness == Failed /\ left > right /\ left > 0 /\ right > 0 /\ split = <<>>

(* C6: for 0 <= left <= right, once the right cursor has stopped and the left
   cursor has stopped the two are equal, so the assertion never fails. *)
C6_CursorsMeet ==
    Ordered =>
        /\ (pc = "left_loop" /\ (l = 0 \/ l + lsb(l) > r)) => l = r
        /\ ~Failed

C6_Witness ==
    /\ Ordered /\ pc = "left_loop" /\ (l = 0 \/ l + lsb(l) > r)
    /\ l = r /\ left < l /\ l < right

(* C10: the number of returned parts is the least number of canonical blocks
   [a, a + 2^k), a a multiple of 2^k, that tile [left, right). *)
C10_FewestBlocks ==
    (Returned /\ ValidRange) => Len(Result.parts) = MinBlocks(left, right)

C10_Witness ==
    /\ Returned /\ ValidRange /\ left = 9 /\ right = 29
    /\ Len(Result.parts) = 6 /\ MinBlocks(9, 29) = 6

-----------------------------------------------------------------------------
(* Vocabulary of the frame generator's properties *)

Done == pc = "done"

max_level == MaxLevel(impl, logarithmic, max_position) * Unit

CeilDiv(a, b) == (a + b - 1) \div b

\* The smallest amount one iteration lowers the level by:
\* level_step * min(1, accelerate_intact).
SlowestStep ==
    IF accelerate_intact < Unit THEN Decrement(level_step, accelerate_intact, TRUE)
    ELSE level_step

\* The level of a block height, from the height alone: the height itself in
\* linear mode, and k + 1 for the height 2^k in logarithmic mode.
NativeLevel(h) ==
    IF logarithmic THEN 1 + (CHOOSE k \in 0..bit_length(MaxPos) : Pow2(k) = h) ELSE h

(* C7 as stated: started at level = maxLevel the frame generator terminates
   and yields at most ceil(maxLevel / levelStep) frames. *)
C7_Original ==
    /\ <>Done
    /\ [](start_level = None => n_frames <= CeilDiv(max_level, level_step))

(* C7 amended: for levelStep > 0 and accelerateIntact > 0 the frame generator
   started at level = maxLevel terminates; with d = levelStep * min(1,
   accelerateIntact) it yields at most ceil(maxLevel / d) frames in animate.py
   and at most floor(maxLevel / d) + 1 frames in illustrate.py, whose loop
   also yields the frame at level 0. *)
C7_TerminatesWithinBound ==
    /\ <>Done
    /\ [](start_level = None =>
            n_frames <= (IF impl = "animate"
                         THEN CeilDiv(max_level, SlowestStep)
                         ELSE (max_level \div SlowestStep) + 1))

\* The Drawer's generator has finished one frame above the stated bound.
C7_Witness ==
    /\ Done /\ impl = "illustrate" /\ start_level = None
    /\ n_frames = CeilDiv(max_level, level_step) + 1

\* An iteration that yields a frame at the level it was entered with.
YieldsFrame ==
    /\ pc' = "loop"
    /\ n_frames' = n_frames + 1
    /\ frame'.level = level

(* C8 as stated: in both generators every visited level >= 0 yields a frame
   and the generator stops only once level < 0. *)
C8_Original ==
    /\ [][(pc = "loop" /\ level >= 0) => YieldsFrame]_vars
    /\ [](Done => level < 0)

(* C8 amended: Drawer.animate (illustrate.py) yields a frame for every visited
   level >= 0, the frame at level 0 included, and stops only once level < 0;
   animate (animate.py) yields a frame for every visited level > 0 and stops
   once level <= 0, so it yields no frame at level 0. *)
C8_FrameAtZeroInDrawerOnly ==
    /\ [][(pc = "loop" /\ impl = "illustrate" /\ level >= 0) => YieldsFrame]_vars
    /\ [][(pc = "loop" /\ impl = "animate" /\ level > 0) => YieldsFrame]_vars
    /\ [][(pc = "loop" /\ impl = "animate" /\ level = 0) =>
              (pc' = "done" /\ n_frames' = n_frames /\ frame' = frame)]_vars
    /\ [](Done => IF impl = "illustrate" THEN level < 0 ELSE level <= 0)

\* The Drawer's descending level reached exactly 0 and the frame was yielded.
C8_Witness ==
    /\ Done /\ impl = "illustrate" /\ start_level = None
    /\ n_frames > 1 /\ frame.level = 0 /\ level < 0

\* Every segment of a frame drawn as parts lies over its part at
\* max(level, native level of the part).
SegmentsClamped ==
    (n_frames > 0 /\ ~frame.intact) =>
        /\ Len(frame.segments) = Len(split[1].parts)
        /\ \A i \in 1..Len(frame.segments) :
              LET p == split[1].parts[i]
                  s == frame.segments[i]
                  native == NativeLevel(p.height) * Unit
              IN  /\ s.start = p.start /\ s.end = p.end
                  /\ s.level = (IF frame.level >= native THEN frame.level ELSE native)

\* The frame at level 0 of the range (9, 29) in logarithmic mode.
Frame_9_29_AtZero ==
    /\ n_frames > 0 /\ left = 9 /\ right = 29 /\ logarithmic
    /\ frame.level = 0 /\ ~frame.intact

(* C9 as stated: in a frame drawn as parts every segment is at
   max(level, asLevel(height)); at level 0 of (9, 29) in logarithmic mode the
   part (28, 29) is at level 1 and the part (16, 24) at level 3. *)
C9_Original ==
    /\ SegmentsClamped
    /\ Frame_9_29_AtZero =>
          /\ frame.segments[6].level = 1 * Unit
          /\ frame.segments[4].level = 3 * Unit

(* C9 amended: in a frame drawn as parts every segment is at
   max(level, asLevel(height)); at level 0 of (9, 29) in logarithmic mode the
   part (28, 29) is at level 1 and the part (16, 24, h=8) at level
   max(0, 4) = 4, since bit_length(8) = 4. *)
C9_ClampedAtBitLength ==
    /\ SegmentsClamped
    /\ Frame_9_29_AtZero =>
          /\ frame.segments[6].start = 28 /\ frame.segments[6].end = 29
          /\ frame.segments[6].level = 1 * Unit
          /\ frame.segments[4].start = 16 /\ frame.segments[4].end = 24
          /\ frame.segments[4].level = 4 * Unit

C9_Witness ==
    /\ Frame_9_29_AtZero /\ impl = "illustrate" /\ start_level = None
    /\ frame.segments[4].level = 4 * Unit

-----------------------------------------------------------------------------
(* Vocabulary of the coordinate mapping's properties *)

\* Two successive calls of _get_point, the second at a higher level.
CalledHigher == gp_level /= None /\ gp_level' > gp_level

\* A level at which something is drawn: the baseline 0, or a level >= 1.
DrawnLevel(lv) == lv = 0 \/ lv >= Unit

(* C11 as stated: for any two levels 0 <= a < b <= maxLevel, fractional ones
   included, numerator(a) <= numerator(b). *)
C11_Original == [][CalledHigher => gp_numerator' >= gp_numerator]_vars

(* C11 amended: numerator(a) <= numerator(b) for any two levels
   0 <= a < b <= maxLevel that are each 0 or >= 1, fractional levels >= 1
   included, and for all levels when the stretch is <= 1.  For a stretch > 1
   a level 0 < b < 1 - 1/stretch has numerator(b) < 0 = numerator(0). *)
C11_MonotoneOnDrawnLevels ==
    /\ [][(CalledHigher /\ DrawnLevel(gp_level) /\ DrawnLevel(gp_level'))
            => gp_numerator' >= gp_numerator]_vars
    /\ [][(CalledHigher /\ vertical_stretch <= Unit)
            => gp_numerator' >= gp_numerator]_vars
    /\ [][(gp_level' > 0 /\ vertical_stretch > Unit
             /\ gp_level' * vertical_stretch < (vertical_stretch - Unit) * Unit)
            => gp_numerator' < 0]_vars
    /\ [](gp_level = 0 => gp_numerator = 0)

\* _get_point was called at the fractional level 1.25 with stretch 1.5:
\* its numerator is 1 + 0.25 * 1.5 = 1.375.
C11_Witness ==
    /\ gp_level = Unit + Unit \div 4
    /\ vertical_stretch = (3 * Unit) \div 2
    /\ gp_numerator = 88
    /\ gp_denominator > gp_numerator

-----------------------------------------------------------------------------
(* Vocabulary of the intact prefix *)

\* One more frame has been yielded in this step.
FrameYielded == n_frames' = n_frames + 1

\* The frame yielded last is the single span [left, right) at its level, and
\* it is intact exactly when its level is above the level of first_cut_height.
IntactAsChosen ==
    n_frames > 0 =>
        LET fch == split[1].first_cut_height IN
        /\ frame.intact = (fch /= Inf /\ frame.level > NativeLevel(fch) * Unit)
        /\ frame.intact =>
              frame.segments =
                 << [start |-> left, end |-> right, level |-> frame.level,
                     color |-> "intact"] >>

(* C12: with levelStep > 0 and accelerateIntact > 0 the intact frames (a single
   segment spanning [left, right), chosen when level > asLevel(firstCutHeight))
   form a possibly empty prefix: after a frame drawn as parts every later
   frame is drawn as parts; for left = 0 no frame is intact and every step
   lowers the level by exactly levelStep. *)
C12_IntactPrefix ==
    /\ []IntactAsChosen
    /\ [][(n_frames > 0 /\ ~frame.intact /\ FrameYielded) => ~frame'.intact]_vars
    /\ []((left = 0 /\ n_frames > 0) => ~frame.intact)
    /\ [][(left = 0 /\ FrameYielded) => level' = level - level_step]_vars

\* The range (9, 29) in linear mode, past its intact prefix: the frames above
\* level 16 were intact, the one yielded last is drawn as parts.
C12_Witness ==
    /\ left = 9 /\ right = 29 /\ ~logarithmic /\ start_level = None
    /\ n_frames > 2 /\ ~frame.intact
    /\ frame.level < 16 * Unit
    /\ max_level > 16 * Unit

-----------------------------------------------------------------------------
(* C13: for 0 < left <= right the returned first_cut_height is finite and
   strictly greater than the height of every returned part, of either cursor;
   so in every intact frame the level is strictly above the native level
   asLevel(height) of every part, in linear and in logarithmic mode. *)
C13_CutHeightAboveParts ==
    (Len(split) = 1 /\ 0 < left /\ left <= right) =>
        LET fch == split[1].first_cut_height
            parts == split[1].parts
        IN  /\ fch /= Inf
            /\ fch \in Pow2s
            /\ \A i \in 1..Len(parts) : parts[i].height < fch
            /\ (n_frames > 0 /\ frame.intact) =>
                  \A i \in 1..Len(parts) :
                      frame.level > NativeLevel(parts[i].height) * Unit

\* An intact frame of a range with parts from both cursors, in logarithmic mode.
C13_Witness ==
    /\ Len(split) = 1 /\ 0 < left /\ logarithmic
    /\ Len(left_parts) >= 1 /\ Len(right_parts) >= 1
    /\ n_frames > 0 /\ frame.intact
    /\ \E i \in 1..Len(split[1].parts) :
          2 * split[1].parts[i].height = split[1].first_cut_height

=============================================================================
